---- MODULE Spec2Model ----
(***************************************************************************)
(* Model of quicksort_openmp.cpp: main() generates n integers, round-trips *)
(* them through INFILE, sorts them with the task-parallel quickSort inside *)
(* an OpenMP parallel/single region and writes them to OUTFILE.            *)
(*                                                                         *)
(* Every quickSort invocation is a record carrying its parameters, its     *)
(* locals and its position in the function body.  Invocations are named by *)
(* their path in the recursion tree: <<>> is the call made by main (or by  *)
(* the caller of SpecCall), id \o <<0>> the task created at line 131 and   *)
(* id \o <<1>> the task created at line 134.  Each busy thread of the team *)
(* keeps the stack of the task regions tied to it; the last element runs.  *)
(* The threads of a team are interchangeable, so the team is its size and  *)
(* the set of the stacks of its busy threads.                              *)
(***************************************************************************)
EXTENDS Integers, Sequences, FiniteSets, TLC

\* ---------------------------------------------------------------- bounds
MaxN == 4           \* largest number of integers generated / array length
MaxVal == 2         \* array values are drawn from 0..MaxVal
MaxThreads == 2     \* largest team size of the parallel region
Slack == 1          \* a direct call draws low and high from -Slack .. n-1+Slack
IntBits == 8        \* width of int, scaled down: int holds -2^7 .. 2^7 - 1

VARIABLES
    mainpc,     \* position of main(), or "call" / "returned" for a direct call
    n,          \* main: number of integers requested; length of the allocation
    numbers,    \* the array, a function on 0..n-1
    count,      \* main: value returned by read_numbers_from_file
    infile,     \* contents of INFILE (a sequence of characters) or NoFile
    outfile,    \* contents of OUTFILE or NoFile
    calls,      \* quickSort invocations created so far: path -> record
    team,       \* number of threads of the parallel region
    stacks,     \* one per busy thread: the sequence of invocations tied to it
    input       \* the array as it was when the top-level quickSort was called

vars == <<mainpc, n, numbers, count, infile, outfile, calls, team, stacks, input>>

NoFile == <<"absent">>      \* the file does not exist; no contents equal it
Vals == 0..MaxVal
Root == <<>>

\* ------------------------------------------------------------ int arithmetic
\* Two's complement wrap of an integer result to IntBits bits.
Wrap(x) ==
    LET half == 2 ^ (IntBits - 1)
    IN  ((x + half) % (2 * half)) - half

\* C++ integer division truncates toward zero.
CDiv(a, b) == IF a >= 0 THEN a \div b ELSE -((-a) \div b)

\* line 116: (high + low) / 2
PivotIndex(low, high) == CDiv(Wrap(high + low), 2)

\* ------------------------------------------------------------ memory model
InBounds(i) == i \in DOMAIN numbers

\* ------------------------------------------------------------ quickSort
\* the conditions of the function body
BaseCaseStrict(low, high) == low > high
BaseCase(low, high) == low >= high                         \* line 113
OuterCondStrict(new_low, new_high) == new_low < new_high
OuterCond(new_low, new_high) == new_low <= new_high        \* line 119
ScanLowCondNonStrict(v, pivot) == v <= pivot
ScanLowCondReversed(v, pivot) == v > pivot
ScanLowCond(v, pivot) == v < pivot                         \* line 120
ScanHighCondNonStrict(v, pivot) == v >= pivot
ScanHighCondReversed(v, pivot) == v < pivot
ScanHighCond(v, pivot) == v > pivot                        \* line 121
SwapCondAlways(new_low, new_high) == TRUE
SwapCondStrict(new_low, new_high) == new_low < new_high
SwapCond(new_low, new_high) == new_low <= new_high         \* line 122

\* lines 123-125: the exchange through tmp
SwapCellsNoTmp(a, i, j) == [a EXCEPT ![i] = a[j]]
SwapCells(a, i, j) == [a EXCEPT ![i] = a[j], ![j] = a[i]]

\* the ranges handed to the two tasks
LeftRangeWide(c) == <<c.low - 1, c.new_high>>
LeftRangeSkip(c) == <<c.low, c.new_high - 1>>
LeftRange(c) == <<c.low, c.new_high>>                      \* line 132
RightRangeWide(c) == <<c.new_low, c.high + 1>>
RightRangeSkip(c) == <<c.new_low + 1, c.high>>
RightRange(c) == <<c.new_low, c.high>>                     \* line 135

\* A fresh invocation quickSort(numbers, low, high) that has not started.
\* entry and swaps are records of its history: the cells of its range as they
\* were when it copied its pivot, and the number of exchanges it has made.
NewCall(low, high) ==
    [low |-> low, high |-> high, pivot |-> 0, new_low |-> 0, new_high |-> 0,
     pc |-> "pending", acc |-> {}, entry |-> <<>>, swaps |-> 0]

Top(s) == s[Len(s)]
IsPrefix(p, q) == Len(p) <= Len(q) /\ SubSeq(q, 1, Len(p)) = p
Pending == {id \in DOMAIN calls : calls[id].pc = "pending"}
Live == {id \in DOMAIN calls : calls[id].pc # "done"}

\* the stacks of the team after the thread with stack s has got stack s2
Restack(s, s2) == (stacks \ {s}) \cup (IF s2 = <<>> THEN {} ELSE {s2})
Pop(s) == SubSeq(s, 1, Len(s) - 1)

\* the cells of a at the indices low..high
Slice(a, low, high) == [i \in (low..high) \cap DOMAIN a |-> a[i]]

\* acc records the indices of numbers the invocation has read or written
Touch(c, idxs) == [c EXCEPT !.acc = @ \cup idxs]

\* the position after the loop test of line 119 on cursors new_low, new_high
AfterOuterTest(new_low, new_high) ==
    IF OuterCond(new_low, new_high) THEN "scanLow" ELSE "spawnL"

\* lines 112-115: the invocation quickSort(numbers, low, high) as it is once
\* entered: a trivial range has returned at the guard, any other range is
\* about to select its pivot
Enter(low, high) ==
    [NewCall(low, high) EXCEPT !.pc = IF BaseCase(low, high) THEN "done" ELSE "pivot"]

\* lines 116-119: copy the pivot, set the cursors, first test of the loop
SelectPivot(s) ==
    /\ mainpc \in {"parallel", "call"}
    /\ LET id == Top(s)
           c == calls[id]
           m == PivotIndex(c.low, c.high)
       IN  /\ c.pc = "pivot"
           /\ InBounds(m)
           /\ calls' = [calls EXCEPT ![id] =
                 [Touch(c, {m}) EXCEPT !.pivot = numbers[m], !.new_low = c.low,
                                       !.new_high = c.high,
                                       !.entry = Slice(numbers, c.low, c.high),
                                       !.pc = AfterOuterTest(c.low, c.high)]]
    /\ UNCHANGED <<mainpc, n, numbers, count, infile, outfile, team, stacks, input>>

\* line 120: while (numbers[new_low] < pivot) new_low++;   one test per step
ScanLow(s) ==
    /\ mainpc \in {"parallel", "call"}
    /\ LET id == Top(s)
           c == calls[id]
       IN  /\ c.pc = "scanLow"
           /\ InBounds(c.new_low)
           /\ calls' = [calls EXCEPT ![id] =
                 IF ScanLowCond(numbers[c.new_low], c.pivot)
                 THEN [Touch(c, {c.new_low}) EXCEPT !.new_low = Wrap(@ + 1)]
                 ELSE [Touch(c, {c.new_low}) EXCEPT !.pc = "scanHigh"]]
    /\ UNCHANGED <<mainpc, n, numbers, count, infile, outfile, team, stacks, input>>

\* line 121: while (numbers[new_high] > pivot) new_high--;  one test per step
ScanHigh(s) ==
    /\ mainpc \in {"parallel", "call"}
    /\ LET id == Top(s)
           c == calls[id]
       IN  /\ c.pc = "scanHigh"
           /\ InBounds(c.new_high)
           /\ calls' = [calls EXCEPT ![id] =
                 IF ScanHighCond(numbers[c.new_high], c.pivot)
                 THEN [Touch(c, {c.new_high}) EXCEPT !.new_high = Wrap(@ - 1)]
                 ELSE [Touch(c, {c.new_high}) EXCEPT !.pc = "swap"]]
    /\ UNCHANGED <<mainpc, n, numbers, count, infile, outfile, team, stacks, input>>

\* lines 122-128 and the next test of line 119: the guarded swap, the cursor
\* moves, and the loop test on the moved cursors
Swap(s) ==
    /\ mainpc \in {"parallel", "call"}
    /\ LET id == Top(s)
           c == calls[id]
       IN  /\ c.pc = "swap"
           /\ IF SwapCond(c.new_low, c.new_high)
              THEN /\ InBounds(c.new_low) /\ InBounds(c.new_high)
                   /\ numbers' = SwapCells(numbers, c.new_low, c.new_high)
                   /\ calls' = [calls EXCEPT ![id] =
                         [Touch(c, {c.new_low, c.new_high}) EXCEPT
                             !.new_low = Wrap(@ + 1), !.new_high = Wrap(@ - 1),
                             !.swaps = @ + 1,
                             !.pc = AfterOuterTest(Wrap(c.new_low + 1),
                                                   Wrap(c.new_high - 1))]]
              ELSE /\ calls' = [calls EXCEPT ![id].pc =
                         AfterOuterTest(c.new_low, c.new_high)]
                   /\ numbers' = numbers
    /\ UNCHANGED <<mainpc, n, count, infile, outfile, team, stacks, input>>

\* lines 131-132: #pragma omp task  quickSort(numbers, low, new_high)
\* low and new_high are firstprivate: the task holds their values at creation.
SpawnLeft(s) ==
    /\ mainpc \in {"parallel", "call"}
    /\ LET id == Top(s)
           c == calls[id]
           r == LeftRange(c)
       IN  /\ c.pc = "spawnL"
           /\ calls' = [calls EXCEPT ![id].pc = "spawnR"]
                         @@ ((id \o <<0>>) :> NewCall(r[1], r[2]))
    /\ UNCHANGED <<mainpc, n, numbers, count, infile, outfile, team, stacks, input>>

\* the task of line 134 left out
SpawnRightNoTask(s) ==
    /\ mainpc \in {"parallel", "call"}
    /\ calls[Top(s)].pc = "spawnR"
    /\ calls' = [calls EXCEPT ![Top(s)].pc = "return"]
    /\ UNCHANGED <<mainpc, n, numbers, count, infile, outfile, team, stacks, input>>

\* lines 134-135: #pragma omp task  quickSort(numbers, new_low, high)
SpawnRight(s) ==
    /\ mainpc \in {"parallel", "call"}
    /\ LET id == Top(s)
           c == calls[id]
           r == RightRange(c)
       IN  /\ c.pc = "spawnR"
           /\ calls' = [calls EXCEPT ![id].pc = "return"]
                         @@ ((id \o <<1>>) :> NewCall(r[1], r[2]))
    /\ UNCHANGED <<mainpc, n, numbers, count, infile, outfile, team, stacks, input>>

\* line 136: the invocation returns; there is no taskwait before it
Return(s) ==
    /\ mainpc \in {"parallel", "call"}
    /\ LET id == Top(s)
       IN  /\ calls[id].pc = "return"
           /\ calls' = [calls EXCEPT ![id].pc = "done"]
           /\ stacks' = Restack(s, Pop(s))
    /\ UNCHANGED <<mainpc, n, numbers, count, infile, outfile, team, input>>

\* -------------------------------------------------- OpenMP task scheduling
\* A busy thread is at a task scheduling point when the task it runs has just
\* generated a task (lines 131 and 134).  A thread with nothing tied to it
\* waits in the barrier of the single or of the parallel region, which is a
\* task scheduling point too.
AtSchedulingPoint(s) == calls[Top(s)].pc \in {"spawnR", "return"}

\* Task scheduling constraint for tied tasks: a new task may be started on a
\* thread only if it descends from every task region tied to that thread.
MaySchedule(s, id) == \A k \in 1..Len(s) : IsPrefix(s[k], id)

\* a thread starts the deferred task id and enters quickSort: a thread that
\* suspends the task it runs, or a thread that waits in the barrier
Schedule(id) ==
    /\ mainpc \in {"parallel", "call"}
    /\ id \in Pending
    /\ LET c == Enter(calls[id].low, calls[id].high)
           run == IF c.pc = "done" THEN <<>> ELSE <<id>>
       IN  /\ calls' = [calls EXCEPT ![id] = c]
           /\ \/ \E s \in stacks :
                    /\ AtSchedulingPoint(s)
                    /\ MaySchedule(s, id)
                    /\ stacks' = Restack(s, s \o run)
              \/ /\ Cardinality(stacks) < team
                 /\ stacks' = stacks \cup (IF run = <<>> THEN {} ELSE {run})
    /\ UNCHANGED <<mainpc, n, numbers, count, infile, outfile, team, input>>

\* The implicit barrier that ends the single and the parallel region (line
\* 188): every thread has arrived and no explicit task is left.
BarrierPassedSingleOnly == calls[Root].pc = "done"
BarrierPassedIdleOnly == stacks = {}
BarrierPassed == stacks = {} /\ Pending = {}

RegionEnd ==
    /\ mainpc \in {"parallel", "call"}
    /\ BarrierPassed
    /\ mainpc' = IF mainpc = "parallel" THEN "write_out" ELSE "returned"
    /\ UNCHANGED <<n, numbers, count, infile, outfile, calls, team, stacks, input>>

\* The indices the next statement of invocation c reads or writes.
NextAccess(c) ==
    CASE c.pc = "pivot" -> {PivotIndex(c.low, c.high)}
      [] c.pc = "scanLow" -> {c.new_low}
      [] c.pc = "scanHigh" -> {c.new_high}
      [] c.pc = "swap" -> IF SwapCond(c.new_low, c.new_high)
                          THEN {c.new_low, c.new_high} ELSE {}
      [] OTHER -> {}

\* An access outside the array is undefined behaviour.  The process is killed
\* by the access, or the access is carried out on whatever lies beside the
\* array and nothing can be said about the execution from there on.
OutOfBounds(s) ==
    /\ mainpc \in {"parallel", "call"}
    /\ LET id == Top(s)
           c == calls[id]
           idxs == NextAccess(c)
       IN  /\ \E i \in idxs : ~InBounds(i)
           /\ \/ /\ mainpc' = "crashed"
                 /\ UNCHANGED calls
              \/ /\ mainpc' = "undefined"
                 /\ calls' = [calls EXCEPT ![id] = Touch(c, idxs)]
    /\ UNCHANGED <<n, numbers, count, infile, outfile, team, stacks, input>>

\* ------------------------------------------------------------ file helpers
Digits == <<"0", "1", "2", "3", "4", "5", "6", "7", "8", "9">>

RECURSIVE Decimal(_)
\* operator<< of a non-negative int (line 60)
Decimal(v) == IF v < 10 THEN <<Digits[v + 1]>>
              ELSE Decimal(v \div 10) \o <<Digits[(v % 10) + 1]>>

RECURSIVE Format(_, _, _)
\* lines 59-64: the first k of the integers a[i], i = from.., comma separated
Format(a, from, k) ==
    IF from >= k THEN <<>>
    ELSE Decimal(a[from]) \o (IF from < k - 1 THEN <<",">> ELSE <<>>)
             \o Format(a, from + 1, k)

RECURSIVE Tokens(_)
\* line 87: the successive results of getline(infile, line, ',')
Tokens(s) ==
    IF s = <<>> THEN <<>>
    ELSE LET commas == {i \in 1..Len(s) : s[i] = ","}
         IN  IF commas = {} THEN <<s>>
             ELSE LET c == CHOOSE i \in commas : \A j \in commas : i <= j
                  IN  <<SubSeq(s, 1, c - 1)>> \o Tokens(SubSeq(s, c + 1, Len(s)))

DigitValue(ch) == CHOOSE d \in 0..9 : Digits[d + 1] = ch

RECURSIVE Stoi(_)
\* line 88: stoi of a string of decimal digits
Stoi(tok) == IF Len(tok) = 1 THEN DigitValue(tok[1])
             ELSE 10 * Stoi(SubSeq(tok, 1, Len(tok) - 1)) + DigitValue(tok[Len(tok)])

\* ------------------------------------------------------------ main
\* lines 40-44 (called at line 175): rand() % 1000, cut to the model's values
generate_random_numbers ==
    /\ mainpc = "generate"
    /\ numbers' \in [0..(n - 1) -> Vals]
    /\ mainpc' = "write_in"
    /\ UNCHANGED <<n, count, infile, outfile, calls, team, stacks, input>>

\* lines 56-70 (called at line 178): the file opens and is written, or not
write_numbers_to_file_in ==
    /\ mainpc = "write_in"
    /\ \/ infile' = Format(numbers, 0, n)
       \/ infile' = infile
    /\ mainpc' = "read"
    /\ UNCHANGED <<n, numbers, count, outfile, calls, team, stacks, input>>

\* lines 82-96 (called at line 181)
read_numbers_from_file ==
    /\ mainpc = "read"
    /\ \/ /\ infile # NoFile
          /\ LET toks == Tokens(infile)
             IN  /\ numbers' = [i \in DOMAIN numbers |->
                         IF i < Len(toks) THEN Stoi(toks[i + 1]) ELSE numbers[i]]
                 /\ count' = Len(toks)
       \/ /\ count' = -1
          /\ UNCHANGED numbers
    /\ mainpc' = "check"
    /\ UNCHANGED <<n, infile, outfile, calls, team, stacks, input>>

\* line 182: if (count > 0)
HasNumbersNonZero(c) == c # 0
HasNumbers(c) == c > 0

\* lines 182-188: count > 0, the parallel region starts with a team of k
\* threads and the thread that takes the single calls quickSort
EnterParallel ==
    /\ mainpc = "check"
    /\ HasNumbers(count)
    /\ team' \in 1..MaxThreads
    /\ calls' = (Root :> Enter(0, count - 1))
    /\ stacks' = IF Enter(0, count - 1).pc = "done" THEN {} ELSE {<<Root>>}
    /\ input' = numbers
    /\ mainpc' = "parallel"
    /\ UNCHANGED <<n, numbers, count, infile, outfile>>

\* line 182: count <= 0, neither the sort nor the second write happens
SkipSort ==
    /\ mainpc = "check"
    /\ ~HasNumbers(count)
    /\ mainpc' = "exit"
    /\ UNCHANGED <<n, numbers, count, infile, outfile, calls, team, stacks, input>>

\* line 190
write_numbers_to_file_out ==
    /\ mainpc = "write_out"
    /\ \/ outfile' = Format(numbers, 0, count)
       \/ outfile' = outfile
    /\ mainpc' = "exit"
    /\ UNCHANGED <<n, numbers, count, infile, calls, team, stacks, input>>

\* ------------------------------------------------------------ specifications
TaskStep ==
    \/ \E s \in stacks :
          \/ SelectPivot(s)
          \/ ScanLow(s)
          \/ ScanHigh(s)
          \/ Swap(s)
          \/ SpawnLeft(s)
          \/ SpawnRight(s)
          \/ Return(s)
    \/ \E id \in DOMAIN calls : Schedule(id)

\* main(): lines 150-204 with n already parsed
Init ==
    /\ mainpc = "generate"
    /\ n \in 0..MaxN
    /\ numbers = [i \in 0..(n - 1) |-> 0]   \* new int[n]; written before any read
    /\ count = 0
    /\ infile = NoFile
    /\ outfile = NoFile
    /\ calls = <<>>
    /\ team = 0
    /\ stacks = {}
    /\ input = <<>>

Next ==
    \/ generate_random_numbers
    \/ write_numbers_to_file_in
    \/ read_numbers_from_file
    \/ EnterParallel
    \/ SkipSort
    \/ TaskStep
    \/ RegionEnd
    \/ write_numbers_to_file_out

Spec == Init /\ [][Next]_vars

\* The OpenMP runtime keeps at least one thread of the team going and main()
\* is sequential: a step that can be taken is eventually taken.
FairSpec == Spec /\ WF_vars(Next)

\* quickSort(numbers, low, high) called inside a parallel/single region on an
\* arbitrary array with arbitrary bounds
InitCall ==
    /\ mainpc = "call"
    /\ n \in 1..MaxN
    /\ numbers \in [0..(n - 1) -> Vals]
    /\ count = n
    /\ infile = NoFile
    /\ outfile = NoFile
    /\ \E low, high \in (0 - Slack)..(n - 1 + Slack) :
          calls = (Root :> Enter(low, high))
    /\ team \in 1..MaxThreads
    /\ stacks = IF calls[Root].pc = "done" THEN {} ELSE {<<Root>>}
    /\ input = numbers

NextCall ==
    \/ TaskStep
    \/ RegionEnd
    \/ \E s \in stacks : OutOfBounds(s)

SpecCall == InitCall /\ [][NextCall]_vars

\* ------------------------------------------- the pivot index of line 116
\* the largest value of int, and so the largest count main can pass
IntMax == 2 ^ (IntBits - 1) - 1

\* quickSort(numbers, low, high) called on any range low < high of an array of
\* the largest size an int can count; only the index arithmetic of line 116 is
\* of interest, the array holds zeros
InitPivot ==
    /\ mainpc = "call"
    /\ n = IntMax
    /\ numbers = [i \in 0..(n - 1) |-> 0]
    /\ count = n
    /\ infile = NoFile
    /\ outfile = NoFile
    /\ \E low, high \in 0..(n - 1) :
          /\ low < high
          /\ calls = (Root :> Enter(low, high))
    /\ team = 1
    /\ stacks = {<<Root>>}
    /\ input = numbers

\* line 116 alone: the pivot is copied, or the index lies outside the array
NextPivot == \E s \in stacks : SelectPivot(s) \/ OutOfBounds(s)

SpecPivot == InitPivot /\ [][NextPivot]_vars

\* ------------------------------------------------------------ properties
\* the top-level quickSort and every task it transitively created have finished
Completed == DOMAIN calls # {} /\ Live = {}

Range(c) == c.low..c.high
Occurrences(a, idxs, v) == Cardinality({i \in idxs \cap DOMAIN a : a[i] = v})
IsSorted(a, lo, hi) == \A i \in lo..(hi - 1) : a[i] <= a[i + 1]

\* the non-decreasing arrangement of the values of a
SortedOf(a) ==
    [i \in DOMAIN a |->
        CHOOSE v \in Vals :
            /\ Cardinality({j \in DOMAIN a : a[j] < v}) <= i
            /\ i < Cardinality({j \in DOMAIN a : a[j] <= v})]

Unrelated(a, b) == ~IsPrefix(a, b) /\ ~IsPrefix(b, a)

\* C1: once quickSort(numbers, 0, count-1) and all the tasks it transitively
\* created have completed, numbers[i] <= numbers[i+1] for every i in 0..count-2,
\* whatever the input array and the scheduling.
C1_Sorted == Completed => \A i \in 0..(count - 2) : numbers[i] <= numbers[i + 1]

C1_Witness ==
    /\ Completed
    /\ count = 4
    /\ team = 2
    /\ ~IsSorted(input, 0, count - 1)
    /\ Cardinality(DOMAIN calls) >= 7

\* C2: after quickSort(numbers, low, high) and all its descendant tasks have
\* completed, every value occurs in low..high as often as it did before the call.
C2_Permutation ==
    Completed =>
        \A v \in Vals : Occurrences(numbers, Range(calls[Root]), v)
                          = Occurrences(input, Range(calls[Root]), v)

C2_Witness ==
    /\ Completed
    /\ calls[Root].high - calls[Root].low >= 2
    /\ numbers # input
    /\ \E i, j \in Range(calls[Root]) : i # j /\ input[i] = input[j]

\* C3: write_numbers_to_file(numbers, count, OUTFILE) never runs while a
\* quickSort invocation is pending or executing.
C3_WriteAfterJoin ==
    mainpc = "write_out" => \A id \in DOMAIN calls : calls[id].pc = "done"

C3_Witness ==
    /\ mainpc = "write_out"
    /\ team = 2
    /\ Cardinality(DOMAIN calls) >= 7

\* C4: the contents of the array when the sort is over are a function of the
\* input array alone: the same for every team size and every interleaving.
C4_Deterministic ==
    (mainpc \in {"write_out", "exit"} /\ DOMAIN calls # {}) => numbers = SortedOf(input)

C4_Witness ==
    /\ mainpc = "write_out"
    /\ team = 1
    /\ count = 4
    /\ numbers # input

\* C5: invocations in different branches of the recursion tree have disjoint
\* index ranges and have touched disjoint sets of indices; an invocation that
\* has created a task is past its partition loop, performs no further array
\* access, and its tasks work inside its own range.
C5_NoRace ==
    \A a, b \in DOMAIN calls :
        /\ (a # b /\ Unrelated(a, b)) =>
              /\ Range(calls[a]) \cap Range(calls[b]) = {}
              /\ calls[a].acc \cap calls[b].acc = {}
        /\ (a # b /\ IsPrefix(a, b)) =>
              /\ calls[a].pc \in {"spawnR", "return", "done"}
              /\ NextAccess(calls[a]) = {}
              /\ Range(calls[b]) \subseteq Range(calls[a])

C5_Witness ==
    \E s, u \in stacks :
        /\ s # u
        /\ Unrelated(Top(s), Top(u))
        /\ calls[Top(s)].pc = "swap" /\ calls[Top(u)].pc = "swap"
        /\ SwapCond(calls[Top(s)].new_low, calls[Top(s)].new_high)
        /\ SwapCond(calls[Top(u)].new_low, calls[Top(u)].new_high)

AllEqual(a) == \A i, j \in DOMAIN a : a[i] = a[j]

\* C6: the sort always terminates: under fair scheduling main() reaches its end
\* with no invocation pending or running, and an array whose elements are all
\* equal is then the same as before the sort.
C6_Terminates ==
    <>(/\ mainpc = "exit"
       /\ DOMAIN calls # {} => (Live = {} /\ (AllEqual(input) => numbers = input)))

C6_Witness ==
    /\ mainpc = "exit"
    /\ Completed
    /\ count >= 3
    /\ AllEqual(input)
    /\ Cardinality(DOMAIN calls) >= 5

Children(id) == {id \o <<0>>, id \o <<1>>}

\* C7 as stated: an invocation with low < high has returned only if both tasks
\* it created have completed.
C7_JoinBeforeReturn ==
    \A id \in DOMAIN calls :
        (calls[id].pc = "done" /\ calls[id].low < calls[id].high) =>
            \A ch \in Children(id) : ch \in DOMAIN calls /\ calls[ch].pc = "done"

\* C7, amended: an invocation with low < high returns once it has created both
\* tasks, without waiting for them; both have completed by the time the
\* parallel region has ended and main() goes on.
C7_JoinAtRegionEnd ==
    \A id \in DOMAIN calls :
        (calls[id].pc = "done" /\ calls[id].low < calls[id].high) =>
            \A ch \in Children(id) :
                /\ ch \in DOMAIN calls
                /\ mainpc \in {"write_out", "exit"} => calls[ch].pc = "done"

C7_Witness ==
    /\ mainpc = "write_out"
    /\ calls[Root].pc = "done"
    /\ calls[Root].low < calls[Root].high
    /\ \A ch \in Children(Root) : calls[ch].low < calls[ch].high

\* C8: an invocation with low >= high reads and writes no array element, creates
\* no task and returns at the guard; this holds for the top-level call (also
\* with high = -1 or low = count) and for every recursive invocation.
C8_TrivialRangeNoOp ==
    /\ \A id \in DOMAIN calls :
          calls[id].low >= calls[id].high =>
              /\ calls[id].acc = {}
              /\ Children(id) \cap DOMAIN calls = {}
              /\ calls[id].pc \in {"pending", "done"}
    /\ calls[Root].low >= calls[Root].high =>
          /\ numbers = input
                /\ mainpc \in {"call", "returned"}

C8_Witness ==
    /\ mainpc = "returned"
    /\ calls[Root].low = count
    /\ calls[Root].high = count - 1
    /\ count >= 2

\* C9: if the array is in non-decreasing order over [low, high] before the
\* call, it is the same array, position by position, after the call completes.
C9_SortedUnchanged ==
    (Completed /\ IsSorted(input, calls[Root].low, calls[Root].high)) => numbers = input

C9_Witness ==
    /\ Completed
    /\ calls[Root].high - calls[Root].low >= 3
    /\ IsSorted(input, calls[Root].low, calls[Root].high)
    /\ input[calls[Root].low] < input[calls[Root].high]

\* C10: a call with low < high and a bound outside the sequence (low < 0 or
\* high > count-1) ends in an error before any element is read or written.
C10_FailFast ==
    (/\ calls[Root].low < calls[Root].high
     /\ (calls[Root].low < 0 \/ calls[Root].high > count - 1)) =>
        /\ \A id \in DOMAIN calls : calls[id].acc = {}
            /\ mainpc # "undefined"

\* C11: main calls quickSort only when read_numbers_from_file returned
\* count > 0, and then as quickSort(numbers, 0, count - 1); when the file could
\* not be opened (count = -1) or holds no number (count = 0), neither the sort
\* nor the write of OUTFILE happens.
C11_SortOnlyIfCountPositive ==
    /\ (DOMAIN calls # {} \/ mainpc \in {"parallel", "write_out"} \/ outfile # NoFile) =>
          /\ count > 0
          /\ calls[Root].low = 0
          /\ calls[Root].high = count - 1
    /\ (mainpc = "exit" /\ count <= 0) => (DOMAIN calls = {} /\ outfile = NoFile)

C11_Witness ==
    /\ mainpc = "exit"
    /\ count = 0
    /\ infile = <<>>
    /\ DOMAIN calls = {}

\* the partition loop of invocation c has exited (line 129 passed)
LoopExited(c) == c.pc \in {"spawnL", "spawnR", "return"}

\* C12: partition postcondition.  When the loop of an invocation with
\* low < high has exited, every element at an index in low..new_high is
\* <= pivot and every element at an index in new_low..high is >= pivot, pivot
\* being the value copied from numbers[(low + high) / 2] before the loop.
C12_PartitionPost ==
    \A id \in DOMAIN calls :
        LET c == calls[id]
        IN  (LoopExited(c) /\ c.low < c.high) =>
               /\ \A i \in c.low..c.new_high : numbers[i] <= c.pivot
               /\ \A i \in c.new_low..c.high : numbers[i] >= c.pivot

C12_Witness ==
    \E id \in DOMAIN calls :
        LET c == calls[id]
        IN  /\ c.pc = "spawnL"
            /\ c.high - c.low >= 2
            /\ numbers # input
            /\ \E i \in c.low..c.new_high : numbers[i] < c.pivot
            /\ \E i \in c.new_low..c.high : numbers[i] > c.pivot

\* C13 as stated: every partition step ends with new_high = new_low - 1 or
\* new_high = new_low.
C13_AdjacentOrEqual ==
    \A id \in DOMAIN calls :
        LET c == calls[id]
        IN  LoopExited(c) =>
               (c.new_high = c.new_low - 1 \/ c.new_high = c.new_low)

\* C13: every partition step (an invocation with low < high) ends with the
\* cursors crossed by one or by two: new_high = new_low - 1 or
\* new_high = new_low - 2; they are never equal on exit.
C13_CrossedByOneOrTwo ==
    \A id \in DOMAIN calls :
        LET c == calls[id]
        IN  LoopExited(c) =>
               /\ c.low < c.high
               /\ (c.new_high = c.new_low - 1 \/ c.new_high = c.new_low - 2)

C13_Witness ==
    \E id \in DOMAIN calls :
        LET c == calls[id]
        IN  /\ c.pc = "spawnL"
            /\ c.new_high = c.new_low - 2
            /\ \E id2 \in DOMAIN calls :
                  /\ calls[id2].pc = "spawnR"
                  /\ calls[id2].new_high = calls[id2].new_low - 1

\* the two invocations created by lines 131-135 of invocation id
LeftChild(id) == calls[id \o <<0>>]
RightChild(id) == calls[id \o <<1>>]
HasChildren(id) == Children(id) \subseteq DOMAIN calls

\* the cells of the range of c hold the values they held when c started
PermutedInRange(c) ==
    \A v \in Vals : Occurrences(numbers, Range(c), v)
                      = Occurrences(c.entry, DOMAIN c.entry, v)

\* C14 as stated: the two sub-ranges handed to the recursive sorts together
\* cover exactly the indices low..high, and the elements are a permutation of
\* the original elements of [low, high].
C14_CoverExactly ==
    \A id \in DOMAIN calls :
        HasChildren(id) =>
            /\ Range(LeftChild(id)) \cup Range(RightChild(id)) = Range(calls[id])
            /\ PermutedInRange(calls[id])

\* C14: the two sub-ranges handed to the recursive sorts are disjoint, lie in
\* low..high and cover every index of low..high except, when the loop exits
\* with new_low = new_high + 2, the one index new_high + 1; the elements of
\* [low, high] are a permutation of the original elements of [low, high].
C14_CoverButMiddle ==
    \A id \in DOMAIN calls :
        LET c == calls[id]
        IN  /\ HasChildren(id) =>
                LET L == Range(LeftChild(id))
                    R == Range(RightChild(id))
                IN  /\ L \cup R \subseteq Range(c)
                    /\ L \cap R = {}
                    /\ Range(c) \ (L \cup R) =
                          IF c.new_low = c.new_high + 2 THEN {c.new_high + 1} ELSE {}
            /\ (c.pc \notin {"pending", "pivot"} /\ c.low < c.high) => PermutedInRange(c)

C14_Witness ==
    \E id \in DOMAIN calls :
        /\ HasChildren(id)
        /\ calls[id].new_low = calls[id].new_high + 2
        /\ Range(LeftChild(id)) # {}
        /\ Range(RightChild(id)) # {}
        /\ calls[id].swaps >= 2
        /\ Slice(numbers, calls[id].low, calls[id].high) # calls[id].entry

\* C15: progress of the recursion.  Every invocation with low < high, whatever
\* the array holds (all elements equal included), performs at least one swap,
\* so that its loop exits with new_high <= high - 1 and new_low >= low + 1, and
\* each of the sub-ranges [low, new_high] and [new_low, high] has strictly
\* fewer elements than [low, high].
C15_Progress ==
    \A id \in DOMAIN calls :
        LET c == calls[id]
        IN  /\ LoopExited(c) =>
                /\ c.swaps >= 1
                /\ c.new_high <= c.high - 1
                /\ c.new_low >= c.low + 1
            /\ HasChildren(id) =>
                /\ Cardinality(Range(LeftChild(id))) < Cardinality(Range(c))
                /\ Cardinality(Range(RightChild(id))) < Cardinality(Range(c))

C15_Witness ==
    /\ AllEqual(input)
    /\ Cardinality(DOMAIN input) >= 3
    /\ HasChildren(Root)
    /\ calls[Root].swaps >= 2
    /\ \E id \in DOMAIN calls :
          /\ id # Root
          /\ LoopExited(calls[id])

\* C16: range invariant.  Every invocation reachable from the top-level call
\* quickSort(numbers, 0, count - 1) with count >= 1 has, if its range is
\* non-empty (low <= high), 0 <= low and high <= count - 1; an invocation with
\* low > high has low <= count and high >= -1, and it ends the recursion
\* without touching the array.
C16_RangeInvariant ==
    \A id \in DOMAIN calls :
        LET c == calls[id]
        IN  /\ count >= 1
            /\ (c.low <= c.high) => (0 <= c.low /\ c.high <= count - 1)
            /\ (c.low > c.high) =>
                  /\ c.low <= count
                  /\ c.high >= -1
                  /\ c.pc \in {"pending", "done"}
                  /\ c.acc = {}
                  /\ c.swaps = 0
                  /\ Children(id) \cap DOMAIN calls = {}

C16_Witness ==
    /\ \E id \in DOMAIN calls :
          /\ calls[id].pc = "done"
          /\ calls[id].low > calls[id].high
          /\ calls[id].high = -1
    /\ \E id \in DOMAIN calls :
          /\ id # Root
          /\ calls[id].pc = "done"
          /\ calls[id].low < calls[id].high
          /\ calls[id].high = count - 1

\* the range of c lies in the array
InArray(c) == 0 <= c.low /\ c.high <= count - 1

\* C17: access confinement.  In an invocation on [low, high] with
\* 0 <= low < high <= count - 1 every index at which numbers[] is read or
\* written, those visited by the unguarded scans of lines 120-121 included, lies
\* in low..high: no scan runs past high or below low, and so no access leaves
\* the array.
C17_AccessConfined ==
    /\ \A id \in DOMAIN calls :
          LET c == calls[id]
          IN  (InArray(c) /\ c.low < c.high) =>
                 /\ c.acc \subseteq Range(c)
                 /\ NextAccess(c) \subseteq Range(c)
    /\ InArray(calls[Root]) => mainpc \in {"call", "returned"}

C17_Witness ==
    /\ Completed
    /\ calls[Root].low >= 1
    /\ calls[Root].high <= count - 2
    /\ calls[Root].acc = Range(calls[Root])
    /\ calls[Root].low < calls[Root].high
    /\ numbers # input

\* C18: frame effect of a call on a sub-range.  When quickSort(numbers, low,
\* high) is called with 0 <= low <= high <= count - 1 on a larger array, every
\* element at an index < low or > high has, after the call and all its
\* descendant tasks complete (and at every moment before), the value it had
\* before the call.
C18_Frame ==
    (InArray(calls[Root]) /\ calls[Root].low <= calls[Root].high) =>
        /\ \A i \in DOMAIN numbers \ Range(calls[Root]) : numbers[i] = input[i]
        /\ \A id \in DOMAIN calls : calls[id].acc \subseteq Range(calls[Root])

C18_Witness ==
    /\ Completed
    /\ mainpc = "returned"
    /\ calls[Root].low >= 1
    /\ calls[Root].high <= count - 2
    /\ numbers # input
    /\ numbers[0] > numbers[1]
    /\ numbers[count - 1] < numbers[count - 2]

\* invocation c has partitioned its range and left out the cell between its
\* two sub-ranges
LeftOutMiddle(c) ==
    /\ c.pc \in {"spawnL", "spawnR", "return", "done"}
    /\ c.low < c.high
    /\ c.new_low = c.new_high + 2

\* C19: whenever the loop of an invocation exits with new_low = new_high + 2,
\* the element at index new_high + 1, passed to neither recursive sort, equals
\* the pivot; it is >= every element of [low, new_high] and <= every element
\* of [new_low, high], and it stands at its final sorted position.
C19_MiddleIsPivot ==
    \A id \in DOMAIN calls :
        LET c == calls[id]
            mid == c.new_high + 1
        IN  LeftOutMiddle(c) =>
               /\ numbers[mid] = c.pivot
               /\ \A i \in c.low..c.new_high : numbers[i] <= numbers[mid]
               /\ \A i \in c.new_low..c.high : numbers[mid] <= numbers[i]
               /\ SortedOf(input)[mid] = numbers[mid]

C19_Witness ==
    /\ Completed
    /\ numbers # input
    /\ \E id \in DOMAIN calls :
          LET c == calls[id]
          IN  /\ LeftOutMiddle(c)
              /\ c.swaps >= 2
              /\ \E i \in c.low..c.new_high : numbers[i] < c.pivot
              /\ \E i \in c.new_low..c.high : numbers[i] > c.pivot

\* C20: for every invocation with 0 <= low < high <= count - 1 the index
\* (high + low) / 2, computed in signed fixed-width int, satisfies
\* low <= (high + low) / 2 <= high: the pivot is copied from an element of the
\* range being sorted.
C20_PivotIndexInRange ==
    /\ \A id \in DOMAIN calls :
          LET c == calls[id]
          IN  (InArray(c) /\ c.low < c.high) =>
                 /\ c.low <= PivotIndex(c.low, c.high)
                 /\ PivotIndex(c.low, c.high) <= c.high
                 /\ c.acc \subseteq Range(c)
    /\ mainpc \notin {"crashed", "undefined"}
====
